---- MODULE Spec2Model ----
(***************************************************************************)
(* A model of json_keyquotes_convert: the four regex-driven text passes    *)
(* (json_add_key_quotes, json_remove_key_quotes, json_escape_ctrlchars,    *)
(* json_unescape_ctrlchars) and the JsonKeyQuoteConverter builder that     *)
(* threads a text through them.                                            *)
(*                                                                         *)
(* A text is a sequence of one-character strings.  A regular expression is *)
(* a sequence of atoms matched by a backtracking matcher with the regex    *)
(* crate's leftmost-first semantics (greedy and lazy repetition, ordered   *)
(* alternation); replace_all and captures_iter walk the non-overlapping    *)
(* matches from left to right.                                             *)
(***************************************************************************)
EXTENDS Integers, Sequences, FiniteSets, TLC

(***************************************************************************)
(* Characters and character classes.                                       *)
(***************************************************************************)
DQ == "\""
SQ == "'"
BS == "\\"
LF == "\n"
CR == "\r"
TAB == "\t"
SP == " "

\* \s of the regex crate, as far as one-character strings of the model go.
Whitespace == {" ", "\t", "\n", "\r", "\f"}

Digits == {"0", "1", "2", "3", "4", "5", "6", "7", "8", "9"}

Letters ==
    {"A", "B", "C", "D", "E", "F", "G", "H", "I", "J", "K", "L", "M",
     "N", "O", "P", "Q", "R", "S", "T", "U", "V", "W", "X", "Y", "Z",
     "a", "b", "c", "d", "e", "f", "g", "h", "i", "j", "k", "l", "m",
     "n", "o", "p", "q", "r", "s", "t", "u", "v", "w", "x", "y", "z"}

\* SUPPORTED_KEY_CHARS_REGEX_STR: A-Za-z0-9 ~!@#$%^&*()\-_=+\\|;"'.<>/?\s
\* (the backquote and the euro sign of the source are left out: a TLA+ string
\* cannot hold them, and no text of the model does).
SUPPORTED_KEY_CHARS ==
    Letters \cup Digits \cup Whitespace \cup
    {"~", "!", "@", "#", "$", "%", "^", "&", "*", "(", ")", "-", "_",
     "=", "+", "\\", "|", ";", "\"", "'", ".", "<", ">", "/", "?"}

\* A class is a set of characters, or the complement of one.
Class(set) == [neg |-> FALSE, set |-> set]
NotClass(set) == [neg |-> TRUE, set |-> set]
InClass(c, cls) == (c \in cls.set) # cls.neg

KeyClass == Class(SUPPORTED_KEY_CHARS)      \* [<supported key chars>]
NoQuote == NotClass({DQ, SQ})               \* [^"']
WsClass == Class(Whitespace)                \* \s
AnyClass == NotClass({})                    \* [\s\S]
DotClass == NotClass({LF})                  \* .
OpenerClass == Class({"{", "["})            \* [{\[]
DelimClass == Class({"[", ",", "{"})        \* [\[,{]
NumStartClass == Class(Digits \cup {"-", "."})  \* [\d\-\.]

(***************************************************************************)
(* Regex atoms.                                                            *)
(***************************************************************************)
One(cls) == [t |-> "one", c |-> cls]           \* one character of a class
Lit(ch) == One(Class({ch}))                    \* a literal character
Star(cls) == [t |-> "star", c |-> cls]         \* cls*   (greedy)
Lazy(cls) == [t |-> "lazy", c |-> cls]         \* cls*?  (lazy)
Alt(words) == [t |-> "alt", w |-> words]       \* (?:w1|w2|...) of literal words
\* (?:[^q\\]|\\.)*  : a greedy run of unescaped characters and escape pairs
Body(q) == [t |-> "body", c |-> NotClass({q, BS})]

RECURSIVE RunLen(_, _, _)
\* The number of consecutive characters of class cls in s from position p on.
RunLen(s, p, cls) ==
    IF p <= Len(s) /\ InClass(s[p], cls) THEN 1 + RunLen(s, p + 1, cls) ELSE 0

\* Whether the literal word w stands in s at position p.
WordAt(s, p, w) ==
    /\ p + Len(w) - 1 <= Len(s)
    /\ \A i \in 1..Len(w) : s[p + i - 1] = w[i]

RECURSIVE BodyEnds(_, _, _)
\* The positions at which (?:[^q\\]|\\.)* can stop when started at p, the
\* longest first: each step takes one unescaped character or one escape pair.
BodyEnds(s, p, cls) ==
    IF p <= Len(s) /\ InClass(s[p], cls)
    THEN BodyEnds(s, p + 1, cls) \o <<p>>
    ELSE IF p + 1 <= Len(s) /\ s[p] = BS /\ InClass(s[p + 1], DotClass)
         THEN BodyEnds(s, p + 2, cls) \o <<p>>
         ELSE <<p>>

(***************************************************************************)
(* The matcher.  MatchAt(re, k, s, p) matches atoms k.. of re against s at *)
(* position p and returns the start positions of atoms k..Len(re) followed *)
(* by the end of the match, or << >> when there is no match.  Choices are  *)
(* tried in the regex crate's order of preference and the first one that   *)
(* lets the rest of the expression match is taken.                         *)
(***************************************************************************)
RECURSIVE MatchAt(_, _, _, _)
RECURSIVE TryCounts(_, _, _, _, _, _, _)
RECURSIVE TryWords(_, _, _, _, _)
RECURSIVE TryEnds(_, _, _, _, _, _)

Prepend(p, rest) == IF rest = <<>> THEN <<>> ELSE <<p>> \o rest

\* Repetition counts n, n + step, ... up to the bound last.
TryCounts(re, k, s, p, n, last, step) ==
    LET rest == MatchAt(re, k + 1, s, p + n)
    IN  IF rest # <<>> THEN <<p>> \o rest
        ELSE IF n = last THEN <<>>
        ELSE TryCounts(re, k, s, p, n + step, last, step)

TryWords(re, k, s, p, i) ==
    IF i > Len(re[k].w) THEN <<>>
    ELSE LET w == re[k].w[i]
             rest == IF WordAt(s, p, w)
                     THEN MatchAt(re, k + 1, s, p + Len(w)) ELSE <<>>
         IN  IF rest # <<>> THEN <<p>> \o rest
             ELSE TryWords(re, k, s, p, i + 1)

TryEnds(re, k, s, p, ends, i) ==
    IF i > Len(ends) THEN <<>>
    ELSE LET rest == MatchAt(re, k + 1, s, ends[i])
         IN  IF rest # <<>> THEN <<p>> \o rest
             ELSE TryEnds(re, k, s, p, ends, i + 1)

MatchAt(re, k, s, p) ==
    IF k > Len(re) THEN <<p>>
    ELSE LET a == re[k]
         IN  CASE a.t = "one" ->
                    IF p <= Len(s) /\ InClass(s[p], a.c)
                    THEN Prepend(p, MatchAt(re, k + 1, s, p + 1))
                    ELSE <<>>
               [] a.t = "star" ->
                    TryCounts(re, k, s, p, RunLen(s, p, a.c), 0, -1)
               [] a.t = "lazy" ->
                    TryCounts(re, k, s, p, 0, RunLen(s, p, a.c), 1)
               [] a.t = "alt" -> TryWords(re, k, s, p, 1)
               [] a.t = "body" -> TryEnds(re, k, s, p, BodyEnds(s, p, a.c), 1)

RECURSIVE FindFrom(_, _, _)
\* The leftmost match of re in s that starts at position from or later.
FindFrom(re, s, from) ==
    IF from > Len(s) + 1 THEN <<>>
    ELSE LET m == MatchAt(re, 1, s, from)
         IN  IF m # <<>> THEN m ELSE FindFrom(re, s, from + 1)

MatchEnd(m) == m[Len(m)]

RECURSIVE AllMatches(_, _, _)
\* Regex::captures_iter / the matches replace_all rewrites: the successive
\* non-overlapping leftmost matches.  (No expression of the program matches
\* the empty text, so the next search starts where the last match ended.)
AllMatches(re, s, from) ==
    LET m == FindFrom(re, s, from)
    IN  IF m = <<>> THEN <<>> ELSE <<m>> \o AllMatches(re, s, MatchEnd(m))

\* The text of atoms i..j of match m (a capture group).
Group(s, m, i, j) == SubSeq(s, m[i], m[j + 1] - 1)

(***************************************************************************)
(* Replacement: a template is a sequence of pieces, each a literal text or *)
(* a named group of the match ($name).                                     *)
(***************************************************************************)
TLit(text) == [t |-> "lit", s |-> text]
TGroup(i, j) == [t |-> "grp", i |-> i, j |-> j]

RECURSIVE Expand(_, _, _, _)
Expand(s, m, tpl, n) ==
    IF n > Len(tpl) THEN <<>>
    ELSE (IF tpl[n].t = "lit" THEN tpl[n].s ELSE Group(s, m, tpl[n].i, tpl[n].j))
         \o Expand(s, m, tpl, n + 1)

RECURSIVE ReplaceAllFrom(_, _, _, _)
ReplaceAllFrom(re, s, tpl, from) ==
    LET m == FindFrom(re, s, from)
    IN  IF m = <<>> THEN SubSeq(s, from, Len(s))
        ELSE SubSeq(s, from, m[1] - 1) \o Expand(s, m, tpl, 1)
             \o ReplaceAllFrom(re, s, tpl, MatchEnd(m))

\* Regex::replace_all  (an empty text holds no match)
replace_all(re, s, tpl) ==
    IF Len(s) = 0 THEN s ELSE ReplaceAllFrom(re, s, tpl, 1)

(***************************************************************************)
(* str::replace and str::replacen(.., 1).                                  *)
(***************************************************************************)
StartsAt(s, p, pat) ==
    /\ p + Len(pat) - 1 <= Len(s)
    /\ \A i \in 1..Len(pat) : s[p + i - 1] = pat[i]

RECURSIVE ReplaceFrom(_, _, _, _)
ReplaceFrom(s, pat, to, p) ==
    IF p > Len(s) THEN <<>>
    ELSE IF StartsAt(s, p, pat) THEN to \o ReplaceFrom(s, pat, to, p + Len(pat))
    ELSE <<s[p]>> \o ReplaceFrom(s, pat, to, p + 1)

\* str::replace(pat, to) for a non-empty pattern: every occurrence, left to right.
replace(s, pat, to) == ReplaceFrom(s, pat, to, 1)

RECURSIVE FirstAt(_, _, _)
\* The position of the first occurrence of pat in s at or after p, 0 if none.
FirstAt(s, pat, p) ==
    IF p + Len(pat) - 1 > Len(s) THEN 0
    ELSE IF StartsAt(s, p, pat) THEN p ELSE FirstAt(s, pat, p + 1)

\* str::replacen(pat, to, 1): the first occurrence of pat anywhere in s.
replacen(s, pat, to) ==
    LET p == FirstAt(s, pat, 1)
    IN  IF p = 0 THEN s
        ELSE SubSeq(s, 1, p - 1) \o to \o SubSeq(s, p + Len(pat), Len(s))

(***************************************************************************)
(* Quotes (lib.rs).                                                        *)
(***************************************************************************)
Quotes == {"DoubleQuote", "SingleQuote"}

as_str(quote_type) == IF quote_type = "DoubleQuote" THEN DQ ELSE SQ

(***************************************************************************)
(* json_add_key_quotes.                                                    *)
(***************************************************************************)
\* (?P<prevchar_key>[^"'][\s]*)(?P<key>[K]*?[^"'])(?P<val>:\s*?q[\s\S]*?q)
StringValRegex(q) ==
    << One(NoQuote), Star(WsClass), Lazy(KeyClass), One(NoQuote),
       Lit(":"), Lazy(WsClass), Lit(q), Lazy(AnyClass), Lit(q) >>

single_quoted_string_val_regex == StringValRegex(SQ)
double_quoted_string_val_regex == StringValRegex(DQ)

\* (?P<key>[K]*?[^"'])(?P<val>:\s*?[{\[])
object_val_regex ==
    << Lazy(KeyClass), One(NoQuote), Lit(":"), Lazy(WsClass), One(OpenerClass) >>

\* (?P<before>[\[,{]\s*?)(?P<key>[K]*?[^"'])(?P<after>:\s*?[\d\-\.])
number_val_regex ==
    << One(DelimClass), Lazy(WsClass), Lazy(KeyClass), One(NoQuote),
       Lit(":"), Lazy(WsClass), One(NumStartClass) >>

NullBoolWords == << <<"n", "u", "l", "l">>, <<"t", "r", "u", "e">>,
                    <<"f", "a", "l", "s", "e">> >>

\* (?P<before>[\[,{]\s*?)(?P<key>[K]*?[^"'])(?P<after>:\s*?(?:null|true|false))
null_bools_val_regex ==
    << One(DelimClass), Lazy(WsClass), Lazy(KeyClass), One(NoQuote),
       Lit(":"), Lazy(WsClass), Alt(NullBoolWords) >>

\* "$prevchar_key" + q + "$key" + q + "$val"  (groups 1-2, 3-4, 5-9)
StringValTemplate(q) ==
    << TGroup(1, 2), TLit(<<q>>), TGroup(3, 4), TLit(<<q>>), TGroup(5, 9) >>

\* q + "$key" + q + "$val"  (groups 1-2, 3-5)
ObjectValTemplate(q) ==
    << TLit(<<q>>), TGroup(1, 2), TLit(<<q>>), TGroup(3, 5) >>

\* "$before" + q + "$key" + q + "$after"  (groups 1-2, 3-4, 5-7)
BeforeKeyAfterTemplate(q) ==
    << TGroup(1, 2), TLit(<<q>>), TGroup(3, 4), TLit(<<q>>), TGroup(5, 7) >>

json_add_key_quotes(json, quote_type) ==
    LET q == as_str(quote_type)
        json_single_quoted_string_passed ==
            replace_all(single_quoted_string_val_regex, json, StringValTemplate(q))
        json_double_quoted_string_passed ==
            replace_all(double_quoted_string_val_regex,
                        json_single_quoted_string_passed, StringValTemplate(q))
        json_object_passed ==
            replace_all(object_val_regex, json_double_quoted_string_passed,
                        ObjectValTemplate(q))
        json_number_passed ==
            replace_all(number_val_regex, json_object_passed,
                        BeforeKeyAfterTemplate(q))
        json_null_bools_passed ==
            replace_all(null_bools_val_regex, json_number_passed,
                        BeforeKeyAfterTemplate(q))
    IN  json_null_bools_passed

(***************************************************************************)
(* json_remove_key_quotes.                                                 *)
(***************************************************************************)
\* (?P<before>[{\[,][\s]*)q(?P<key>[K]*?)q(?P<after>\s*?:)
QuotedKeyRegex(q) ==
    << One(DelimClass), Star(WsClass), Lit(q), Lazy(KeyClass), Lit(q),
       Lazy(WsClass), Lit(":") >>

single_quotes_regex == QuotedKeyRegex(SQ)
double_quotes_regex == QuotedKeyRegex(DQ)

\* "$before$key$after"  (groups 1-2, 4, 6-7)
RemoveTemplate == << TGroup(1, 2), TGroup(4, 4), TGroup(6, 7) >>

json_remove_key_quotes(json) ==
    LET json_single_quotes_passed ==
            replace_all(single_quotes_regex, json, RemoveTemplate)
        json_double_quotes_passed ==
            replace_all(double_quotes_regex, json_single_quotes_passed,
                        RemoveTemplate)
    IN  json_double_quotes_passed

(***************************************************************************)
(* json_escape_ctrlchars.                                                  *)
(***************************************************************************)
\* (?P<prevchar_key>[^"'][\s]*)kq(?P<key>[K]*?[^"'])kq(?P<val>\s*?:\s*?vq[\s\S]*?vq)
QuotedStringKeyRegex(kq, vq) ==
    << One(NoQuote), Star(WsClass), Lit(kq), Lazy(KeyClass), One(NoQuote),
       Lit(kq), Lazy(WsClass), Lit(":"), Lazy(WsClass), Lit(vq),
       Lazy(AnyClass), Lit(vq) >>

\* kq(?P<key>[K]*?[^"'])kq(?P<val>\s*?:\s*?[{\[])
QuotedObjectKeyRegex(kq) ==
    << Lit(kq), Lazy(KeyClass), One(NoQuote), Lit(kq), Lazy(WsClass),
       Lit(":"), Lazy(WsClass), One(OpenerClass) >>

\* (?P<before>[\[,{]\s*?)kq(?P<key>[K]*?[^"'])kq(?P<after>\s*?:\s*?[\d\-\.])
QuotedNumberKeyRegex(kq) ==
    << One(DelimClass), Lazy(WsClass), Lit(kq), Lazy(KeyClass), One(NoQuote),
       Lit(kq), Lazy(WsClass), Lit(":"), Lazy(WsClass), One(NumStartClass) >>

\* (?P<before>[\[,{]\s*?)kq(?P<key>[K]*?[^"'])kq(?P<after>\s*?:\s*?(?:null|true|false))
QuotedNullBoolKeyRegex(kq) ==
    << One(DelimClass), Lazy(WsClass), Lit(kq), Lazy(KeyClass), One(NoQuote),
       Lit(kq), Lazy(WsClass), Lit(":"), Lazy(WsClass), Alt(NullBoolWords) >>

\* :[\s]*?q((?:[^q\\]|\\.)*)q   (group 1 is atom 4)
StringValueRegex(q) ==
    << Lit(":"), Lazy(WsClass), Lit(q), Body(q), Lit(q) >>

singlequoted_string_value_regex == StringValueRegex(SQ)
doublequoted_string_value_regex == StringValueRegex(DQ)

\* Keys: "\n" -> "", "\r" -> "", "\t" -> ""
EscapeKeyPairs == << <<(<<LF>>), <<>> >>, <<(<<CR>>), <<>> >>, <<(<<TAB>>), <<>> >> >>

\* The double-quoted key / double-quoted value loop repeats its last replacen.
EscapeKeyPairsRepeated == EscapeKeyPairs \o << <<(<<TAB>>), <<>> >> >>

\* A key pass: an expression, the atoms (first, last) of its key group and
\* the replacements made in each captured key.
KeyPass(re, i, j, pairs) == [re |-> re, i |-> i, j |-> j, pairs |-> pairs]

\* The ten key passes of json_escape_ctrlchars, in the order of the source.
EscapeKeyPasses ==
    << KeyPass(QuotedStringKeyRegex(SQ, SQ), 4, 5, EscapeKeyPairs),
       KeyPass(QuotedStringKeyRegex(DQ, SQ), 4, 5, EscapeKeyPairs),
       KeyPass(QuotedStringKeyRegex(SQ, DQ), 4, 5, EscapeKeyPairs),
       KeyPass(QuotedStringKeyRegex(DQ, DQ), 4, 5, EscapeKeyPairsRepeated),
       KeyPass(QuotedObjectKeyRegex(SQ), 2, 3, EscapeKeyPairs),
       KeyPass(QuotedObjectKeyRegex(DQ), 2, 3, EscapeKeyPairs),
       KeyPass(QuotedNumberKeyRegex(SQ), 4, 5, EscapeKeyPairs),
       KeyPass(QuotedNumberKeyRegex(DQ), 4, 5, EscapeKeyPairs),
       KeyPass(QuotedNullBoolKeyRegex(SQ), 4, 5, EscapeKeyPairs),
       KeyPass(QuotedNullBoolKeyRegex(DQ), 4, 5, EscapeKeyPairs) >>

RECURSIVE ReplacenEach(_, _, _, _)
\* For one capture cap, in turn for each (from, to) of pairs:
\*     new_json = new_json.replacen(cap, &cap.replace(from, to), 1)
\* Every step looks for the capture as it was matched, wherever it first
\* occurs in the current text.
ReplacenEach(new_json, cap, pairs, n) ==
    IF n > Len(pairs) \/ Len(new_json) = 0 THEN new_json
    ELSE ReplacenEach(replacen(new_json, cap, replace(cap, pairs[n][1], pairs[n][2])),
                      cap, pairs, n + 1)

RECURSIVE ForEachCapture(_, _, _, _, _, _, _)
\* for cap in re.captures_iter(&new_json.clone()) { ... }: the matches are
\* those of the text as it was when the loop began (snapshot).
ForEachCapture(new_json, snapshot, ms, n, i, j, pairs) ==
    IF n > Len(ms) \/ Len(new_json) = 0 THEN new_json
    ELSE ForEachCapture(
             ReplacenEach(new_json, Group(snapshot, ms[n], i, j), pairs, 1),
             snapshot, ms, n + 1, i, j, pairs)

\* One loop of the source: the captures of re in the text as it stands, each
\* rewritten by content.  (An empty text holds no match.)
CtrlPass(new_json, re, i, j, pairs) ==
    IF Len(new_json) = 0 THEN new_json
    ELSE ForEachCapture(new_json, new_json, AllMatches(re, new_json, 1), 1,
                        i, j, pairs)

RECURSIVE KeyPassesFrom(_, _, _)
KeyPassesFrom(new_json, passes, n) ==
    IF n > Len(passes) \/ Len(new_json) = 0 THEN new_json
    ELSE KeyPassesFrom(CtrlPass(new_json, passes[n].re, passes[n].i, passes[n].j,
                                passes[n].pairs),
                       passes, n + 1)

\* Values: "\r" -> "\\r", "\n" -> "\\n", "\t" -> "\\t"
EscapeValuePairs ==
    << <<(<<CR>>), <<BS, "r">> >>, <<(<<LF>>), <<BS, "n">> >>,
       <<(<<TAB>>), <<BS, "t">> >> >>

\* One iteration of the loop body of json_escape_ctrlchars.
EscapeIteration(new_json) ==
    LET keys_passed == KeyPassesFrom(new_json, EscapeKeyPasses, 1)
        single_passed ==
            CtrlPass(keys_passed, singlequoted_string_value_regex, 4, 4,
                     EscapeValuePairs)
    IN  CtrlPass(single_passed, doublequoted_string_value_regex, 4, 4,
                 EscapeValuePairs)

\* for _n in 0..2 { ... }
json_escape_ctrlchars(json) == EscapeIteration(EscapeIteration(json))

(***************************************************************************)
(* json_unescape_ctrlchars.                                                *)
(***************************************************************************)
\* (?P<prevchar_key>[^"'][\s]*)(?P<key>[K]*?[^"'])(?P<val>\s*?:\s*?vq[\s\S]*?vq)
BareStringKeyRegex(vq) ==
    << One(NoQuote), Star(WsClass), Lazy(KeyClass), One(NoQuote),
       Lazy(WsClass), Lit(":"), Lazy(WsClass), Lit(vq), Lazy(AnyClass), Lit(vq) >>

\* (?P<key>[K]*?[^"'])(?P<val>\s*?:\s*?[{\[])
BareObjectKeyRegex ==
    << Lazy(KeyClass), One(NoQuote), Lazy(WsClass), Lit(":"), Lazy(WsClass),
       One(OpenerClass) >>

\* (?P<before>[\[,{]\s*?)(?P<key>[K]*?[^"'])(?P<after>\s*?:\s*?[\d\-\.])
BareNumberKeyRegex ==
    << One(DelimClass), Lazy(WsClass), Lazy(KeyClass), One(NoQuote),
       Lazy(WsClass), Lit(":"), Lazy(WsClass), One(NumStartClass) >>

\* (?P<before>[\[,{]\s*?)(?P<key>[K]*?[^"'])(?P<after>\s*?:\s*?(?:null|true|false))
BareNullBoolKeyRegex ==
    << One(DelimClass), Lazy(WsClass), Lazy(KeyClass), One(NoQuote),
       Lazy(WsClass), Lit(":"), Lazy(WsClass), Alt(NullBoolWords) >>

\* Keys: "\\r" -> "", "\\n" -> "", "\\t" -> ""
UnescapeKeyPairs ==
    << <<(<<BS, "r">>), <<>> >>, <<(<<BS, "n">>), <<>> >>, <<(<<BS, "t">>), <<>> >> >>

\* The five key passes of json_unescape_ctrlchars, in the order of the source.
UnescapeKeyPasses ==
    << KeyPass(BareStringKeyRegex(SQ), 3, 4, UnescapeKeyPairs),
       KeyPass(BareStringKeyRegex(DQ), 3, 4, UnescapeKeyPairs),
       KeyPass(BareObjectKeyRegex, 1, 2, UnescapeKeyPairs),
       KeyPass(BareNumberKeyRegex, 3, 4, UnescapeKeyPairs),
       KeyPass(BareNullBoolKeyRegex, 3, 4, UnescapeKeyPairs) >>

\* Values: "\\r" -> "\r", "\\n" -> "\n", "\\t" -> "\t"
UnescapeValuePairs ==
    << <<(<<BS, "r">>), <<CR>> >>, <<(<<BS, "n">>), <<LF>> >>,
       <<(<<BS, "t">>), <<TAB>> >> >>

\* One iteration of the loop body of json_unescape_ctrlchars.
UnescapeIteration(new_json) ==
    LET keys_passed ==
            KeyPassesFrom(new_json, UnescapeKeyPasses, 1)
        single_passed ==
            CtrlPass(keys_passed, singlequoted_string_value_regex, 4, 4,
                     UnescapeValuePairs)
    IN  CtrlPass(single_passed, doublequoted_string_value_regex, 4, 4,
                 UnescapeValuePairs)

\* for _n in 0..2 { ... }
json_unescape_ctrlchars(json) == UnescapeIteration(UnescapeIteration(json))

(***************************************************************************)
(* Input texts.  Every text is a possible argument of the passes; the      *)
(* families below are one-member documents  { key : value }  assembled     *)
(* from small sets of key texts and values.                                *)
(***************************************************************************)
MaxKey == 3      \* characters of a key body
MaxBody == 4     \* characters of a string value body (quoting inputs)
MaxUnits == 3    \* control characters or escape tokens of a string value body
MaxCalls == 2    \* builder calls on one converter

\* All sequences over S of length 1..n.
SeqsUpTo(S, n) == UNION {[1..k -> S] : k \in 1..n}

RECURSIVE Concat(_)
Concat(parts) == IF parts = <<>> THEN <<>> ELSE Head(parts) \o Concat(Tail(parts))

\* The document  { key : value }  (key and value as written, quotes included).
Doc(key, value) == <<"{">> \o key \o <<":">> \o value \o <<"}">>

Quoted(q, body) == <<q>> \o body \o <<q>>

\* The text between the opening brace and the first colon of a document, and
\* the text between that colon and the closing brace.
KeyPart(t) == SubSeq(t, 2, FirstAt(t, <<":">>, 1) - 1)
ValuePart(t) == SubSeq(t, FirstAt(t, <<":">>, 1) + 1, Len(t) - 1)

IsSuffix(u, t) == Len(u) <= Len(t) /\ SubSeq(t, Len(t) - Len(u) + 1, Len(t)) = u

QuoteChars == {SQ, DQ}

\* One value of each of the five value shapes.
NullValue == <<"n", "u", "l", "l">>
ShapeValues ==
    {Quoted(SQ, <<"b">>), Quoted(DQ, <<"b">>), <<"{", "}">>, <<"1">>, NullValue}

\* Key bodies: letters and quote characters.
KeyBodies == SeqsUpTo({"a", SQ, DQ}, MaxKey)
LetterKeys == {b \in KeyBodies : \A i \in 1..Len(b) : b[i] = "a"}

\* Bare keys, and keys in one matching pair of quotes; either may be followed
\* by a blank before the colon.
BareKeyTexts == {b \o ws : b \in KeyBodies, ws \in {<<>>, <<SP>>}}
QuotedKeyTexts ==
    {Quoted(q, b) \o ws : q \in QuoteChars, b \in KeyBodies, ws \in {<<>>, <<SP>>}}

\* String values whose body does not hold the quote character that bounds it.
StringBodies(q) == {<<>>} \cup SeqsUpTo({"b", ":", SQ, DQ} \ {q}, MaxBody)
StringValues == UNION {{Quoted(q, b) : b \in StringBodies(q)} : q \in QuoteChars}

\* Documents for the quoting passes: every key text with each value shape,
\* and a plain key (bare or quoted) with every string value.
KeyDocs == {Doc(k, v) : k \in BareKeyTexts \cup QuotedKeyTexts, v \in ShapeValues}
ValueDocs ==
    {Doc(k, v) : k \in {<<"a">>, Quoted(SQ, <<"a">>), Quoted(DQ, <<"a">>)},
                 v \in StringValues}

\* Documents whose bare key ends with a character outside the supported key
\* characters, and documents with blanks around a bare key and the colon.
OutsideChars == {",", "{", "}", "[", "]"}
OutsideKeyDocs == {Doc(<<"a", c>>, v) : c \in OutsideChars, v \in ShapeValues}
BlankDoc(w1, k, w2, w3, v) ==
    <<"{">> \o w1 \o k \o w2 \o <<":">> \o w3 \o v \o <<"}">>
BlankDocs ==
    {BlankDoc(w1, <<"a">>, w2, w3, v) :
        w1 \in {<<>>, <<SP>>}, w2 \in {<<>>, <<SP>>}, w3 \in {<<>>, <<SP>>},
        v \in ShapeValues}

QuoteInputs == KeyDocs \cup ValueDocs \cup OutsideKeyDocs \cup BlankDocs

\* String bodies of literal control characters, and of escape tokens.
CtrlChars == {LF, CR, TAB}
Token(c) == <<BS, IF c = LF THEN "n" ELSE IF c = CR THEN "r" ELSE "t">>
LiteralBodies == SeqsUpTo(CtrlChars, MaxUnits)
TokenBodies ==
    {Concat([i \in 1..Len(b) |-> Token(b[i])]) : b \in LiteralBodies}
CtrlValues ==
    {Quoted(q, b) : q \in QuoteChars, b \in LiteralBodies \cup TokenBodies}

\* Documents for the control-character passes: a plain key, bare or quoted,
\* on the line of the brace or on a line of its own.
CtrlKeys ==
    {pre \o k : pre \in {<<>>, <<LF>>},
                k \in {<<"a">>, Quoted(SQ, <<"a">>), Quoted(DQ, <<"a">>)}}
CtrlValueDocs == {Doc(k, v) : k \in CtrlKeys, v \in CtrlValues}

\* Documents whose key, bare or quoted, holds literal control characters or
\* escape tokens; the value is one of the five shapes, or a string holding
\* one LF or its token.
CtrlKeyBodies == {<<"a">> \o b : b \in LiteralBodies \cup TokenBodies}
CtrlKeyTexts ==
    CtrlKeyBodies \cup {Quoted(q, k) : q \in QuoteChars, k \in CtrlKeyBodies}
CtrlKeyValues == ShapeValues \cup {Quoted(DQ, <<LF>>), Quoted(DQ, Token(LF))}
CtrlKeyDocs == {Doc(k, v) : k \in CtrlKeyTexts, v \in CtrlKeyValues}

CtrlInputs == CtrlValueDocs \cup CtrlKeyDocs

\* Documents for the builder, which chains all four passes.
BuilderInputs ==
    {Doc(k, v) : k \in {<<"a">>, Quoted(DQ, <<"a">>)},
                 v \in ShapeValues \cup {Quoted(DQ, <<LF>>), Quoted(DQ, Token(LF))}}

(***************************************************************************)
(* The state: a JsonKeyQuoteConverter (json, quote_type), with the text it *)
(* was made from, the text before the last call, and the calls made.       *)
(***************************************************************************)
VARIABLES json, quote_type, orig, prev, calls

\* The file at the path given to the file conversions: its contents (or
\* NoFile), its contents before the last conversion, the last conversion
\* (name, quote type, file operations and messages in order, how it ended),
\* and the number of conversions made.
VARIABLES file, before, last, conversions

fsvars == <<file, before, last, conversions>>

vars == <<json, quote_type, orig, prev, calls, file, before, last, conversions>>

\* Not a text: its one element is no character.
NoFile == <<"NoFile">>
NoConversion == [name |-> "none", quote |-> "none", events |-> <<>>, result |-> "none"]

\* No file is involved.
NoFiles ==
    /\ file = NoFile
    /\ before = NoFile
    /\ last = NoConversion
    /\ conversions = 0

\* JsonKeyQuoteConverter::new(json, quote_type)
new(inputs, quote_types) ==
    /\ json \in inputs
    /\ quote_type \in quote_types
    /\ orig = json
    /\ prev = json
    /\ calls = <<>>
    /\ NoFiles

Call(name, result) ==
    /\ Len(calls) < MaxCalls
    /\ json' = result
    /\ prev' = json
    /\ calls' = Append(calls, name)
    /\ UNCHANGED <<quote_type, orig>>
    /\ UNCHANGED fsvars

\* add_key_quotes with the default quote type in place of the stored one.
add_key_quotes_default_quotes ==
    Call("add_key_quotes", json_add_key_quotes(json, "DoubleQuote"))

add_key_quotes == Call("add_key_quotes", json_add_key_quotes(json, quote_type))

remove_key_quotes == Call("remove_key_quotes", json_remove_key_quotes(json))

escape_ctrlchars == Call("escape_ctrlchars", json_escape_ctrlchars(json))

unescape_ctrlchars == Call("unescape_ctrlchars", json_unescape_ctrlchars(json))

\* The builder: any chain of the four calls.
Init == new(BuilderInputs, Quotes)

Next ==
    \/ add_key_quotes
    \/ remove_key_quotes
    \/ escape_ctrlchars
    \/ unescape_ctrlchars

Spec == Init /\ [][Next]_vars

\* The quoting passes on the quoting inputs.
InitQuotes == new(QuoteInputs, Quotes)

NextQuotes ==
    \/ add_key_quotes
    \/ remove_key_quotes

SpecQuotes == InitQuotes /\ [][NextQuotes]_vars

\* The control-character passes on the control-character inputs.
InitCtrl == new(CtrlInputs, {"DoubleQuote"})

NextCtrl ==
    \/ escape_ctrlchars
    \/ unescape_ctrlchars

SpecCtrl == InitCtrl /\ [][NextCtrl]_vars

(***************************************************************************)
(* The file conversions: load_json, the two passes, write_json.            *)
(***************************************************************************)
MaxConversions == 2    \* file conversions on one path

\* Contents of the file: bare and quoted keys, control characters and tokens
\* in keys and in string values.
FileInputs ==
    {Doc(<<"a">>, <<"1">>),
     Doc(<<"a">>, Quoted(DQ, <<LF>>)),
     Doc(<<"a", LF>>, <<"1">>),
     Doc(Quoted(SQ, <<"a">>), NullValue),
     Doc(Quoted(DQ, <<"a">>), Quoted(DQ, Token(LF))),
     Doc(Quoted(DQ, <<"a">> \o Token(LF)), <<"1">>)}

Event(op, ok, text) == [op |-> op, ok |-> ok, text |-> text]
Eprintln == Event("eprintln", TRUE, <<>>)

\* load_json(path): fs::read_to_string fails (always possible), or gives the
\* contents of the file when there is one.
load_json ==
    {Event("load_json", FALSE, <<>>)}
        \cup (IF file = NoFile THEN {} ELSE {Event("load_json", TRUE, file)})

\* write_json(path, text): fs::write succeeds and the file holds the text, or
\* fails and the file is as it was or was truncated.  The file after the
\* call is paired with the event.
write_json(text) ==
    {<<Event("write_json", TRUE, text), text>>,
     <<Event("write_json", FALSE, text), file>>,
     <<Event("write_json", FALSE, text), <<>>>>}

Converted(name, quote, events, result) ==
    /\ before' = file
    /\ last' = [name |-> name, quote |-> quote, events |-> events, result |-> result]
    /\ conversions' = conversions + 1
    /\ UNCHANGED <<json, quote_type, orig, prev, calls>>

\* Err(err) of load_json raised at the caller, as by expect.
LoadFailedPanics(name, quote, l) ==
    /\ file' = file
    /\ Converted(name, quote, <<l>>, "panicked")

\* Err(err) of load_json: eprintln and return.
LoadFailed(name, quote, l) ==
    /\ file' = file
    /\ Converted(name, quote, <<l, Eprintln>>, "returned")

\* Ok(val) of load_json, then write_json of the converted text: Ok(()) falls
\* through to the end, Err(err) is eprintln and return.
LoadedAndWritten(name, quote, l, text) ==
    \E w \in write_json(text) :
        /\ file' = w[2]
        /\ Converted(name, quote,
                     <<l, w[1]>> \o (IF w[1].ok THEN <<>> ELSE <<Eprintln>>),
                     "returned")

json_convert_with_to_without_keyquotes ==
    /\ conversions < MaxConversions
    /\ \E l \in load_json :
        IF ~l.ok
        THEN LoadFailed("json_convert_with_to_without_keyquotes", "none", l)
        ELSE LET unquoted_json == json_remove_key_quotes(l.text)
             IN  LoadedAndWritten("json_convert_with_to_without_keyquotes", "none", l,
                                  json_unescape_ctrlchars(unquoted_json))

\* The two passes in the other order: control characters first.
json_convert_without_to_with_keyquotes_escape_first ==
    /\ conversions < MaxConversions
    /\ \E q \in Quotes, l \in load_json :
        IF ~l.ok
        THEN LoadFailed("json_convert_without_to_with_keyquotes", q, l)
        ELSE LET escaped_json == json_escape_ctrlchars(l.text)
             IN  LoadedAndWritten("json_convert_without_to_with_keyquotes", q, l,
                                  json_add_key_quotes(escaped_json, q))

json_convert_without_to_with_keyquotes ==
    /\ conversions < MaxConversions
    /\ \E q \in Quotes, l \in load_json :
        IF ~l.ok
        THEN LoadFailed("json_convert_without_to_with_keyquotes", q, l)
        ELSE LET keyquoted_json == json_add_key_quotes(l.text, q)
             IN  LoadedAndWritten("json_convert_without_to_with_keyquotes", q, l,
                                  json_escape_ctrlchars(keyquoted_json))

\* A path with or without a file, and no converter.
InitFiles ==
    /\ file \in FileInputs \cup {NoFile}
    /\ before = file
    /\ last = NoConversion
    /\ conversions = 0
    /\ json = <<>>
    /\ quote_type = "DoubleQuote"
    /\ orig = <<>>
    /\ prev = <<>>
    /\ calls = <<>>

NextFiles ==
    \/ json_convert_with_to_without_keyquotes
    \/ json_convert_without_to_with_keyquotes

SpecFiles == InitFiles /\ [][NextFiles]_vars

(***************************************************************************)
(* Well-formed documents of the families: the key is letters only, or one  *)
(* matching pair of quotes around a body that does not hold that quote;    *)
(* the value is one of the five shapes, its string body free of the quote  *)
(* that bounds it.                                                         *)
(***************************************************************************)
Blanks == {<<>>, <<SP>>}
Range(f) == {f[i] : i \in DOMAIN f}

PlainBareKeys == LetterKeys
PlainQuotedKeys == {Quoted(q, b) : q \in QuoteChars, b \in LetterKeys}
WellQuotedKeys ==
    UNION {{Quoted(q, b) : b \in {kb \in KeyBodies : q \notin Range(kb)}} : q \in QuoteChars}
Values == ShapeValues \cup StringValues

HasKeyIn(t, keys) == KeyPart(t) \in keys /\ ValuePart(t) \in Values
LastCalls(names) == calls = names

\* C1: on a document with a bare key of letters, a second add_key_quotes call
\* with the same quote type returns the text of the first call unchanged.
C1_AddIdempotent ==
    (LastCalls(<<"add_key_quotes", "add_key_quotes">>) /\ HasKeyIn(orig, PlainBareKeys))
        => json = prev

\* C2: on a document with a well-quoted key, whose body may hold the other
\* quote character, a second remove_key_quotes call returns the text of the
\* first call unchanged.
C2_RemoveIdempotent ==
    (LastCalls(<<"remove_key_quotes", "remove_key_quotes">>) /\ HasKeyIn(orig, WellQuotedKeys))
        => json = prev

\* C3: a second escape_ctrlchars call returns the text of the first call
\* unchanged.
C3_EscapeIdempotent ==
    LastCalls(<<"escape_ctrlchars", "escape_ctrlchars">>) => json = prev

\* C4: a second unescape_ctrlchars call returns the text of the first call
\* unchanged.
C4_UnescapeIdempotent ==
    LastCalls(<<"unescape_ctrlchars", "unescape_ctrlchars">>) => json = prev

\* C5: on a document with a bare key of letters, add_key_quotes followed by
\* remove_key_quotes returns the original text.
C5_AddRemoveRoundTrip ==
    (LastCalls(<<"add_key_quotes", "remove_key_quotes">>) /\ HasKeyIn(orig, PlainBareKeys))
        => json = orig

\* C6: on a document whose string value body holds only literal LF, CR and TAB
\* characters and no escape token, escape_ctrlchars followed by
\* unescape_ctrlchars returns the original text.
C6_EscapeUnescapeRoundTrip ==
    (/\ LastCalls(<<"escape_ctrlchars", "unescape_ctrlchars">>)
     /\ \E q \in QuoteChars, b \in LiteralBodies : ValuePart(orig) = Quoted(q, b))
        => json = orig

\* C7: one add_key_quotes or remove_key_quotes call leaves the quoted string
\* value of a document, colons and other-kind quotes in its body included,
\* as it was: the result still ends with that value and the closing brace.
C7_StringBodyUntouched ==
    (Len(calls) = 1 /\ orig \in ValueDocs)
        => IsSuffix(ValuePart(orig) \o <<"}">>, json)

\* C8: add_key_quotes puts exactly the chosen quote before and after the bare
\* key of letters of a document, for each of the five value shapes: the
\* result starts with the brace, the quoted key and the colon.
C8_BareKeyWrapped ==
    (LastCalls(<<"add_key_quotes">>) /\ HasKeyIn(orig, PlainBareKeys))
        => SubSeq(json, 1, Len(KeyPart(orig)) + 4)
               = <<"{">> \o Quoted(as_str(quote_type), KeyPart(orig)) \o <<":">>

\* C9: add_key_quotes leaves an already quoted key, with or without a blank
\* before the colon, and its quotes unchanged.
C9_QuotedKeyKept ==
    (/\ LastCalls(<<"add_key_quotes">>)
     /\ \E k \in PlainQuotedKeys, ws \in Blanks : KeyPart(orig) = k \o ws
     /\ ValuePart(orig) \in Values)
        => KeyPart(json) = KeyPart(orig)

\* C10: remove_key_quotes deletes exactly the two quotes that bound a
\* well-quoted key, followed by an optional blank and the colon, and leaves
\* every other character of the document unchanged.
C10_BoundingQuotesRemoved ==
    \A q \in QuoteChars, b \in KeyBodies, ws \in Blanks :
        (/\ LastCalls(<<"remove_key_quotes">>)
         /\ q \notin Range(b)
         /\ KeyPart(orig) = Quoted(q, b) \o ws
         /\ ValuePart(orig) \in Values)
            => json = Doc(b \o ws, ValuePart(orig))

(***************************************************************************)
(* The control-character passes on string values.                          *)
(***************************************************************************)
PlainKeys == {<<"a">>, Quoted(SQ, <<"a">>), Quoted(DQ, <<"a">>)}

\* The body with every literal control character written as its token, and
\* the body with every token written as its literal control character.
Escaped(body) == Concat([i \in 1..Len(body) |-> Token(body[i])])
Unescaped(tokens) ==
    [i \in 1..(Len(tokens) \div 2) |->
        IF tokens[2 * i] = "n" THEN LF ELSE IF tokens[2 * i] = "r" THEN CR ELSE TAB]

\* C11: after one escape_ctrlchars call on a document with a plain key and a
\* string value of literal LF, CR and TAB characters, in any combination, the
\* value body holds the token of each character in its place and no literal
\* control character.
C11_ValueEscaped ==
    \A q \in QuoteChars, b \in LiteralBodies :
        (/\ LastCalls(<<"escape_ctrlchars">>)
         /\ KeyPart(orig) \in PlainKeys
         /\ ValuePart(orig) = Quoted(q, b))
            => ValuePart(json) = Quoted(q, Escaped(b))

\* C14: after one unescape_ctrlchars call on a document with a plain key and
\* a string value of the tokens backslash-n, backslash-r and backslash-t, in
\* any combination, the value body holds the literal control character of
\* each token in its place and no token.
C14_ValueUnescaped ==
    \A q \in QuoteChars, b \in TokenBodies :
        (/\ LastCalls(<<"unescape_ctrlchars">>)
         /\ KeyPart(orig) \in PlainKeys
         /\ ValuePart(orig) = Quoted(q, b))
            => ValuePart(json) = Quoted(q, Unescaped(b))

(***************************************************************************)
(* The control-character passes on keys.                                   *)
(***************************************************************************)
\* C12: after one escape_ctrlchars call on a document whose quoted key holds
\* literal LF, CR and TAB characters, in any combination, the key holds none
\* of them and no token in their place, for each of the five value shapes.
C12_QuotedKeyStripped ==
    \A q \in QuoteChars, b \in LiteralBodies :
        (/\ LastCalls(<<"escape_ctrlchars">>)
         /\ KeyPart(orig) = Quoted(q, <<"a">> \o b)
         /\ ValuePart(orig) \in ShapeValues)
            => KeyPart(json) = Quoted(q, <<"a">>)

\* C13: one or two escape_ctrlchars calls on a document whose bare key holds
\* literal LF or TAB characters and whose value is a string leave the key
\* text as it was.
C13_BareKeyKept ==
    \A b \in LiteralBodies :
        (/\ calls # <<>>
         /\ \A i \in 1..Len(calls) : calls[i] = "escape_ctrlchars"
         /\ CR \notin Range(b)
         /\ KeyPart(orig) = <<"a">> \o b
         /\ ValuePart(orig) \in CtrlKeyValues \ ShapeValues)
            => KeyPart(json) = KeyPart(orig)

\* C15: after one unescape_ctrlchars call on a document whose bare key holds
\* the tokens backslash-n, backslash-r and backslash-t, in any combination,
\* the key holds none of them and no control character in their place, for
\* each of the five value shapes.
C15_BareKeyStripped ==
    \A b \in TokenBodies :
        (/\ LastCalls(<<"unescape_ctrlchars">>)
         /\ KeyPart(orig) = <<"a">> \o b
         /\ ValuePart(orig) \in ShapeValues)
            => KeyPart(json) = <<"a">>

\* C16: one or two unescape_ctrlchars calls on a document whose double-quoted
\* key holds the tokens backslash-n or backslash-t and whose value is a
\* string leave the key text as it was.
C16_QuotedKeyKept ==
    \A b \in TokenBodies :
        (/\ calls # <<>>
         /\ \A i \in 1..Len(calls) : calls[i] = "unescape_ctrlchars"
         /\ "r" \notin Range(b)
         /\ KeyPart(orig) = Quoted(DQ, <<"a">> \o b)
         /\ ValuePart(orig) \in CtrlKeyValues \ ShapeValues)
            => KeyPart(json) = KeyPart(orig)

\* The text of a document up to and including its first colon.
UpToColon(t) == SubSeq(t, 1, FirstAt(t, <<":">>, 1))

\* C20: one escape_ctrlchars or unescape_ctrlchars call on a document with a
\* plain key, on the line of the brace or on a line of its own, and a string
\* value of control characters or tokens changes the value body only: the
\* text up to the colon, which holds no control character or token inside a
\* key, stays as it was even when it holds the same character as the value.
C20_OnlyMatchedRegionChanged ==
    (Len(calls) = 1 /\ orig \in CtrlValueDocs)
        => UpToColon(json) = UpToColon(orig)

(***************************************************************************)
(* The builder against the core functions.                                 *)
(***************************************************************************)
\* The core function a builder call stands for, applied to a text.
CoreFunction(name, text, q) ==
    CASE name = "add_key_quotes" -> json_add_key_quotes(text, q)
      [] name = "remove_key_quotes" -> json_remove_key_quotes(text)
      [] name = "escape_ctrlchars" -> json_escape_ctrlchars(text)
      [] name = "unescape_ctrlchars" -> json_unescape_ctrlchars(text)

\* The core functions of a sequence of calls applied in order to a text.
RECURSIVE ApplyCalls(_, _, _)
ApplyCalls(text, q, names) ==
    IF names = <<>> \/ Len(text) = 0 THEN text
    ELSE ApplyCalls(CoreFunction(Head(names), text, q), q, Tail(names))

Cleared(name) ==
    /\ last.name = name
    /\ Len(last.events) = 2
    /\ last.events[1].ok
    /\ last.events[2].ok

\* C17: after a file conversion whose load and write succeeded, the contents
\* read are those the file had and the file holds the two passes applied to
\* them, the quoting pass first and the control-character pass second:
\* escape(add(c, q)) for without_to_with, unescape(remove(c)) for
\* with_to_without.
C17_FileHoldsComposition ==
    /\ Cleared("json_convert_without_to_with_keyquotes")
        => /\ last.events[1].text = before
           /\ file = json_escape_ctrlchars(json_add_key_quotes(before, last.quote))
    /\ Cleared("json_convert_with_to_without_keyquotes")
        => /\ last.events[1].text = before
           /\ file = json_unescape_ctrlchars(json_remove_key_quotes(before))

\* A successful without_to_with conversion on contents for which the order of
\* the two passes matters.
C17_Witness ==
    /\ Cleared("json_convert_without_to_with_keyquotes")
    /\ file # before
    /\ file # json_add_key_quotes(json_escape_ctrlchars(before), last.quote)

LoadFailure == last.events # <<>> /\ ~last.events[1].ok
WriteFailure ==
    \E i \in 1..Len(last.events) :
        last.events[i].op = "write_json" /\ ~last.events[i].ok
Logged == last.events[Len(last.events)] = Eprintln

\* C18: a file conversion whose load failed made no write, left the file as
\* it was, logged the error and returned; one whose write failed logged the
\* error and returned; none ends other than by returning.
C18_ErrorsLoggedAndSwallowed ==
    /\ LoadFailure
        => /\ \A i \in 1..Len(last.events) : last.events[i].op # "write_json"
           /\ file = before
           /\ Logged
           /\ last.result = "returned"
    /\ WriteFailure => (Logged /\ last.result = "returned")
    /\ last.result \in {"none", "returned"}

\* A second conversion whose load failed although the file is there.
C18_Witness ==
    /\ conversions = 2
    /\ LoadFailure
    /\ file # NoFile

(***************************************************************************)
(* Key characters and blanks in json_add_key_quotes.                       *)
(***************************************************************************)
\* C21: a character outside the supported key characters (here ',', '{',
\* '}', '[' or ']' at the end of a bare key) is never part of a captured key,
\* so add_key_quotes does not put its quotes around a text that holds one;
\* and a key that add_key_quotes recognised and quoted is recognised by
\* remove_key_quotes, which takes the quotes away again.
C21_KeyWithinClass ==
    orig \in OutsideKeyDocs =>
        /\ LastCalls(<<"add_key_quotes">>)
            => KeyPart(json) # Quoted(as_str(quote_type), KeyPart(orig))
        /\ (LastCalls(<<"add_key_quotes", "remove_key_quotes">>) /\ prev # orig)
            => json # prev

\* C22: add_key_quotes on a document with blanks w1 before the bare key, w2
\* between the key and the colon and w3 between the colon and the value
\* returns the document with the quote put right before and right after the
\* key: w1, w2 and w3 stay where they were, outside the quotes, for each of
\* the five value shapes.
C22_BlanksOutsideQuotes ==
    \A w1 \in Blanks, w2 \in Blanks, w3 \in Blanks, v \in ShapeValues :
        (/\ LastCalls(<<"add_key_quotes">>)
         /\ orig = BlankDoc(w1, <<"a">>, w2, w3, v))
            => json = BlankDoc(w1, Quoted(as_str(quote_type), <<"a">>), w2, w3, v)

====
